---- MODULE Spec2Model ----
(***************************************************************************)
(* Source/dasTug/dasTugGameModeBase.h declares one class,                  *)
(*                                                                         *)
(*     UCLASS()                                                            *)
(*     class DASTUG_API AdasTugGameModeBase : public AGameModeBase         *)
(*     { GENERATED_BODY() };                                               *)
(*                                                                         *)
(* The class body holds no member.  AGameModeBase is owned by the host     *)
(* engine and its code is not part of this repository, so the model takes  *)
(* the body of each of its operations as arbitrary code: a call may leave  *)
(* the object in any state and return any result, as a function of the     *)
(* receiver's state and of engine state that both sides of a comparison    *)
(* share.  Every statement checked here holds whatever the engine's base   *)
(* type does.  What is modelled from the header is the class itself: its   *)
(* base, the members its body declares, the layout of an instance and the  *)
(* resolution of a virtual call on it.  Each instance of the class is run  *)
(* next to a plain AGameModeBase instance that receives the same calls.    *)
(***************************************************************************)
EXTENDS Integers, FiniteSets, TLC

\* ---- bounds ----
NumStates == 3      \* abstract states of the engine's base game-mode object
NumCalls  == 3      \* virtual calls (operation + arguments) the base type offers
NumInst   == 2      \* game-mode objects of each type alive side by side

St        == 0 .. (NumStates - 1)
BaseSlots == 1 .. NumCalls
Inst      == 1 .. NumInst
Res       == {"ok", "error"}
NoCall    == "none"

\* ---- the class declaration ----

\* class ... : public AGameModeBase
AdasTugGameModeBase_Super == "AGameModeBase"

\* A subclass that overrides the first virtual of its base.
MethodsWithOverride == {1}

\* A subclass that declares an operation its base does not have.
MethodsWithNewOperation == {NumCalls + 1}

\* member functions declared between the braces: none
AdasTugGameModeBase_Methods == {}

\* A subclass that carries a field of its own.
FieldsWithOwnField == {"Score"}

\* non-static data members declared between the braces: none
AdasTugGameModeBase_Fields == {}

\* A subclass that keeps a class-level counter.
StaticsWithCounter == {"InstanceCount"}

\* static data members / globals defined by the header: none
AdasTugGameModeBase_Statics == {}

\* operations that can be invoked on an instance of cls
Available(cls) ==
    IF cls = "AGameModeBase" THEN BaseSlots
    ELSE BaseSlots \cup AdasTugGameModeBase_Methods

\* C++ virtual dispatch: the most derived class that defines slot c
FinalOverrider(cls, c) ==
    IF cls = "AdasTugGameModeBase" /\ c \in AdasTugGameModeBase_Methods
    THEN "AdasTugGameModeBase"
    ELSE AdasTugGameModeBase_Super

\* layout of a freshly constructed instance: the base subobject, then the
\* class's own fields, zero-initialised
NewObject(cls) ==
    IF cls = "AGameModeBase" THEN 0
    ELSE [f \in {"Super"} \cup AdasTugGameModeBase_Fields |-> 0]

\* the variables an AdasTugGameModeBase instance owns beyond its base subobject
SubclassOwned(obj) == (DOMAIN obj) \ {"Super"}

\* what the engine sees of an instance through an AGameModeBase pointer
AsBase(obj) == obj.Super

Outcome == [state : St, result : Res]

VARIABLES
    alive,      \* the game-mode objects the engine has constructed
    base,       \* base[i]: a plain AGameModeBase instance
    tug,        \* tug[i]: an AdasTugGameModeBase instance
    statics,    \* class-level variables defined by this header
    last        \* what the most recent call did on either side

vars == <<alive, base, tug, statics, last>>

\* the record of `last` before any call
Idle == [inst |-> 0, call |-> 0, body |-> NoCall, baseRes |-> NoCall, tugRes |-> NoCall]

Init ==
    /\ alive = {}
    /\ base = [i \in Inst |-> NewObject("AGameModeBase")]
    /\ tug = [i \in Inst |-> NewObject("AdasTugGameModeBase")]
    /\ statics = [v \in AdasTugGameModeBase_Statics |-> 0]
    /\ last = Idle

\* The engine constructs game-mode object i: a plain AGameModeBase on one
\* side, an AdasTugGameModeBase on the other.  GENERATED_BODY supplies the
\* constructor, which runs the base constructor and nothing else.
Spawn(i) ==
    /\ i \notin alive
    /\ alive' = alive \cup {i}
    /\ base' = [base EXCEPT ![i] = NewObject("AGameModeBase")]
    /\ tug' = [tug EXCEPT ![i] = NewObject("AdasTugGameModeBase")]
    /\ UNCHANGED <<statics, last>>

\* The engine invokes call c on object i of both sides.  ob and ot are what
\* AGameModeBase's body for c does on the plain instance and on the base
\* subobject of the AdasTugGameModeBase instance: the same code in the same
\* engine, so the same outcome whenever the two receivers are in the same
\* state, and otherwise unconstrained.
Call(i, c, ob, ot) ==
    /\ i \in alive
    /\ c \in Available("AdasTugGameModeBase")
    /\ AsBase(tug[i]) = base[i] => ot = ob
    /\ LET body == FinalOverrider("AdasTugGameModeBase", c)
           onBase == c \in Available("AGameModeBase")
           b == IF onBase THEN ob
                ELSE [state |-> base[i], result |-> NoCall]
       IN /\ base' = [base EXCEPT ![i] = b.state]
          /\ IF body = "AGameModeBase"
             THEN \* inherited implementation, run on the base subobject
                  LET t == ot
                  IN /\ tug' = [tug EXCEPT ![i] = [tug[i] EXCEPT !.Super = t.state]]
                     /\ statics' = statics
                     /\ last' = [inst |-> i, call |-> c, body |-> body,
                                 baseRes |-> b.result, tugRes |-> t.result]
             ELSE \* a body written in this header: arbitrary code over the
                  \* object and the header's statics
                  \E s \in St, r \in Res,
                     own \in [SubclassOwned(tug[i]) -> 0 .. 1],
                     g \in [DOMAIN statics -> 0 .. 1] :
                     /\ tug' = [tug EXCEPT ![i] =
                                  [f \in DOMAIN tug[i] |->
                                     IF f = "Super" THEN s ELSE own[f]]]
                     /\ statics' = g
                     /\ last' = [inst |-> i, call |-> c, body |-> body,
                                 baseRes |-> b.result, tugRes |-> r]
    /\ UNCHANGED alive

\* The engine destroys game-mode object i on both sides.
Destroy(i) ==
    /\ i \in alive
    /\ alive' = alive \ {i}
    /\ base' = [base EXCEPT ![i] = NewObject("AGameModeBase")]
    /\ tug' = [tug EXCEPT ![i] = NewObject("AdasTugGameModeBase")]
    /\ UNCHANGED <<statics, last>>

Next ==
    \/ \E i \in Inst : Spawn(i)
    \/ \E i \in Inst, c \in BaseSlots \cup AdasTugGameModeBase_Methods,
          ob \in Outcome, ot \in Outcome : Call(i, c, ob, ot)
    \/ \E i \in Inst : Destroy(i)

Spec == Init /\ [][Next]_vars

\* ---- properties ----

\* C1: run side by side under the same sequence of engine operations, an
\* AdasTugGameModeBase instance and an AGameModeBase instance are in the same
\* state after every step and the last operation returned the same result on
\* both.
C1_SameAsBase ==
    /\ \A i \in alive : AsBase(tug[i]) = base[i]
    /\ last.tugRes = last.baseRes

\* C1 witness: a call has run on a live pair and moved it off the
\* constructed state.
C1_Witness ==
    /\ last.inst \in alive
    /\ base[last.inst] # NewObject("AGameModeBase")
    /\ last.tugRes \in Res

\* C2: every operation invoked on an AdasTugGameModeBase instance is one the
\* base type offers, and the body that runs is AGameModeBase's own.
C2_InheritedOnly ==
    last # Idle =>
        /\ last.call \in Available("AGameModeBase")
        /\ last.body = "AGameModeBase"

\* C2 witness: the last of the base type's calls has been dispatched on an
\* AdasTugGameModeBase instance.
C2_Witness ==
    /\ last.call = NumCalls
    /\ last.body = AdasTugGameModeBase_Super

\* C4: the state of an AdasTugGameModeBase instance is its base subobject and
\* nothing else: no subclass-owned variable exists, and the base subobject is
\* a state the plain AGameModeBase instance is in.
C4_StateIsBaseState ==
    \A i \in Inst : tug[i] = [f \in {"Super"} |-> base[i]]

\* C4 witness: a live instance whose base subobject has left the constructed
\* state and which owns no variable of its own.
C4_Witness ==
    \E i \in alive : base[i] # 0 /\ SubclassOwned(tug[i]) = {}

\* C5: the header defines no class-level variable, no step writes one, an
\* operation leaves an AdasTugGameModeBase instance unchanged whenever it
\* leaves the matching AGameModeBase instance unchanged, and the pair of
\* instances stays in a state the pair of plain instances is in.
C5_Frame ==
    [][ /\ DOMAIN statics' = {}
        /\ statics' = statics
        /\ \A i \in Inst : base'[i] = base[i] => tug'[i] = tug[i]
        /\ \A i \in Inst : AsBase(tug'[i]) = base'[i] ]_vars

\* C5 witness: two live instances in different states, one of them just
\* called.
C5_Witness ==
    /\ Cardinality(alive) >= 2
    /\ last.inst \in alive
    /\ \E j \in alive : j # last.inst /\ tug[j] # tug[last.inst]

\* C6: an operation on an AdasTugGameModeBase instance returns an error only
\* if the same operation on the AGameModeBase instance returned one.
C6_NoNewError ==
    last.tugRes = "error" => last.baseRes = "error"

\* C6 witness: a call on an AdasTugGameModeBase instance has returned an
\* error.
C6_Witness ==
    last.tugRes = "error" /\ last.inst \in alive

====
